---- MODULE Spec2Model ----
(***************************************************************************)
(* Model of chproxy's request scope (scope.go): query counters, host       *)
(* heartbeat and penalty, least-loaded round-robin host selection, scope   *)
(* construction, admission (inc), release (dec), request decoration and    *)
(* KILL QUERY.                                                             *)
(*                                                                         *)
(* Every uint32 of the program is a pair <<hi, lo>> of 16-bit halves, so   *)
(* that the arithmetic wraps at 2^32 exactly as atomic.AddUint32 does.     *)
(***************************************************************************)
EXTENDS Integers, Sequences, FiniteSets, TLC

----------------------------------------------------------------------------
(* Bounds of the model *)

NumHosts == 3
NumScopes == 2
NumPenalizers == 2
\* getHost calls made in one behaviour of SpecHost
MaxCalls == 4
\* penalize calls that pass the size check, per host
MaxPenalties == 62
\* the same, in the specifications about host selection
MaxHostPenalties == 1
\* time.After cases that the history of a heartbeat loop counts
MaxTicks == 1
\* hosts whose heartbeat loop is followed step by step
NumLoops == 2

(* Program constants *)

penaltyMaxSize == 300
penaltySize == 5

Hosts == 0 .. NumHosts - 1
Scopes == 1 .. NumScopes
Penalizers == 1 .. NumPenalizers
LoopHosts == 0 .. NumLoops - 1

----------------------------------------------------------------------------
(* uint32 *)

Half == 65536

U32(n) == <<n \div Half, n % Half>>

Zero == U32(0)

\* x + y, wrapping at 2^32
AddU32(x, y) ==
  LET lo == x[2] + y[2]
  IN  <<(x[1] + y[1] + lo \div Half) % Half, lo % Half>>

\* ^x
NotU32(x) == <<Half - 1 - x[1], Half - 1 - x[2]>>

LessU32(x, y) == x[1] < y[1] \/ (x[1] = y[1] /\ x[2] < y[2])

\* x % n for 0 < n < 2^15
ModU32(x, n) == (((x[1] % n) * (Half % n)) + (x[2] % n)) % n

----------------------------------------------------------------------------
VARIABLES
  active,         \* host.active
  penalty,        \* host.penalty
  hvalue,         \* host.queryCounter.value
  uvalue,         \* user.queryCounter.value
  cuvalue,        \* clusterUser.queryCounter.value
  hostPenalties,  \* the hostPenalties{host} metric
  decays,         \* timers armed by time.AfterFunc and not yet fired, per host
  ppc,            \* the penalize calls in progress
  nextIdx,        \* cluster.nextIdx
  scopeID,        \* the package variable scopeID
  sc,             \* the requests: position, scope fields and locals
  calls,          \* history: getHost calls started
  startIdx,       \* history: nextIdx when the behaviour starts
  startID,        \* history: scopeID when the behaviour starts
  intSize,        \* the build: the bits of Go's int, 32 or 64
  killQueryUserName,  \* cluster.killQueryUserName
  hb,             \* the runHeartbeat goroutine of each host
  done            \* whether the done channel of runHeartbeat is closed

hostVars == <<active, penalty, hvalue>>
userVars == <<uvalue, cuvalue>>
penVars == <<hostPenalties, decays, ppc>>
scopeVars == <<nextIdx, scopeID, sc, calls>>
\* never written after the start
config == <<startIdx, startID, intSize, killQueryUserName>>
hbVars == <<hb, done>>
vars == <<hostVars, userVars, penVars, scopeVars, config, hbVars>>

(* The configuration: two proxy users and two cluster users, of each kind one *)
(* with maxConcurrentQueries = 1 and one without limit                        *)

Users == {0, 1}
ClusterUsers == {0, 1}

\* user.maxConcurrentQueries
userMax(u) == IF u = 0 THEN 1 ELSE 0

\* clusterUser.maxConcurrentQueries
clusterUserMax(cu) == IF cu = 0 THEN 1 ELSE 0

PIdle == [pc |-> "idle", h |-> 0]

\* A host whose runHeartbeat has not been started. pc is the goroutine's
\* position: "none", "heartbeat" while isHealthy runs, "select", "returned".
\* History: probes counts the health checks completed and ticks the
\* time.After cases taken, both up to MaxTicks + 1; last is the result of
\* the last check completed; atDone is the position when done was closed.
NoHeartbeat ==
  [pc |-> "none", probes |-> 0, ticks |-> 0, last |-> "none", atDone |-> "open"]

NoHost == 0 - 1

\* a decimal numeral: its sign and its magnitude
Numeral(neg, mag) == [neg |-> neg, mag |-> mag]

\* user.name, clusterUser.name and clusterUser.password of the configuration
userName(u) == IF u = 0 THEN "web" ELSE "batch"
clusterUserName(cu) == IF cu = 0 THEN "reader" ELSE "writer"
clusterUserPassword(cu) == IF cu = 0 THEN "r-secret" ELSE "w-secret"

\* host.addr.Scheme; host.addr.Host is the host's number
hostScheme(h) == IF h = 0 THEN "https" ELSE "http"

\* the Authorization header that SetBasicAuth(name, password) writes
BasicAuth(name, password) == <<"Basic", name, password>>

\* An http.Request as far as decorateRequest reads or writes it: URL.Scheme,
\* URL.Host, URL.Path; of URL.RawQuery whether it has a query_id and its
\* value, the raw values of its query parameters in their order, and the
\* names of its other parameters; the Authorization and User-Agent headers.
\* A raw value is a sequence of the tokens "a", "+", "%20", "%2B" and "%zz",
\* and a User-Agent a sequence of its parts.
Request(scheme, h, path, hasID, id, query, others, auth, ua) ==
  [scheme |-> scheme, host |-> h, path |-> path, hasID |-> hasID,
   query_id |-> id, query |-> query, others |-> others, auth |-> auth,
   ua |-> ua]

\* a request to the proxy without parameters and without credentials
PlainRequest ==
  Request("", NoHost, "/", FALSE, Numeral(FALSE, Zero), <<>>, {}, <<>>,
          <<"curl">>)

\* the request q of a scope, with its history: whether decorateRequest has
\* rewritten it, and again, and the request as it came in
Tracked(q, decorated, twice, inbound) ==
  [scheme |-> q.scheme, host |-> q.host, path |-> q.path, hasID |-> q.hasID,
   query_id |-> q.query_id, query |-> q.query, others |-> q.others,
   auth |-> q.auth, ua |-> q.ua,
   decorated |-> decorated, twice |-> twice, inbound |-> inbound]

\* the request before decorateRequest
NoRequest == Tracked(PlainRequest, FALSE, FALSE, PlainRequest)

\* what http.DefaultClient.Do returns: an error, or a response with a status
Response(failed, status) == [failed |-> failed, status |-> status]

\* the KILL QUERY request before killQuery: posts counts the POSTs made and
\* resp is what Do returned
NoKill ==
  [called |-> FALSE, sent |-> FALSE, host |-> NoHost,
   query_id |-> Numeral(FALSE, Zero), result |-> "none",
   posts |-> 0, resp |-> Response(FALSE, 0)]

\* A request that has not called newScope yet. host, id, user and clusterUser
\* are the scope's fields; idx, i, idle, idleN, c are getHost's locals and uq,
\* cq, err those of inc; req is the request decorateRequest has rewritten and
\* kill the request killQuery has sent. ticket, callNo, flipped and stable are
\* history of the getHost call: the value AddUint32 returned, the call's
\* number, the hosts whose active flag changed during the call, and whether no
\* host's flag, counter or penalty changed during it.
NoScope ==
  [pc |-> "none", id |-> Zero, host |-> NoHost, user |-> 0, clusterUser |-> 0,
   idx |-> 0, i |-> 0, idle |-> 0, idleN |-> Zero, c |-> Zero,
   uq |-> Zero, cq |-> Zero, err |-> FALSE,
   req |-> NoRequest, kill |-> NoKill,
   ticket |-> Zero, callNo |-> 0, flipped |-> {}, stable |-> TRUE]

\* the history of a getHost call, dropped
forget(r) ==
  [r EXCEPT !.ticket = Zero, !.callNo = 0, !.flipped = {}, !.stable = TRUE]

\* the scopes whose getHost call, run step by step, has returned a host or nil
Returned ==
  {s \in Scopes : sc[s].pc \in {"assignId", "noHosts"} /\ sc[s].callNo > 0}

\* the state after construction, with the cursor in cursors, scopeID (which is
\* uint32(time.Now().UnixNano())) in ids, int of one of the sizes in bits and
\* the kill_query_user of the configuration in names
InitWith(cursors, ids, bits, names) ==
  /\ active = [h \in Hosts |-> 0]
  /\ penalty = [h \in Hosts |-> Zero]
  /\ hvalue = [h \in Hosts |-> Zero]
  /\ uvalue = [u \in Users |-> Zero]
  /\ cuvalue = [cu \in ClusterUsers |-> Zero]
  /\ hostPenalties = [h \in Hosts |-> 0]
  /\ decays = [h \in Hosts |-> 0]
  /\ ppc = [p \in Penalizers |-> PIdle]
  /\ nextIdx \in cursors
  /\ scopeID \in ids
  /\ sc = [s \in Scopes |-> NoScope]
  /\ calls = 0
  /\ startIdx = nextIdx
  /\ startID = scopeID
  /\ intSize \in bits
  /\ killQueryUserName \in names
  /\ hb = [h \in Hosts |-> NoHeartbeat]
  /\ done = FALSE

Init == InitWith({Zero}, {U32(6)}, {64}, {"default"})

\* The same, and also with the cursor two calls before it wraps, where a
\* cluster is after 2^32 - 2 getHost calls.
InitCursor == InitWith({Zero, <<Half - 1, Half - 2>>}, {U32(6)}, {64}, {"default"})

GetHostPcs ==
  {"idleCounter", "idlePenalty", "idleActive", "loopActive", "loopCounter",
   "loopPenalty", "final"}

\* the scopes whose getHost call runs step by step, or has returned to a
\* newScope that has not gone on: their history is kept
Watching == {s \in Scopes : sc[s].callNo > 0}

\* history: a counter or a penalty changed since these getHost calls began
noteLoad ==
  [s \in Scopes |->
     IF s \in Watching THEN [sc[s] EXCEPT !.stable = FALSE] ELSE sc[s]]

\* history: the active flag of h changed since these getHost calls began
noteFlip(h) ==
  [s \in Scopes |->
     IF s \in Watching
       THEN [sc[s] EXCEPT !.stable = FALSE, !.flipped = @ \cup {h}]
       ELSE sc[s]]

----------------------------------------------------------------------------
(* queryCounter *)

incLost(v) == v

inc(v) == AddU32(v, U32(1))

dec(v) == AddU32(v, NotU32(Zero))

----------------------------------------------------------------------------
(* host.penalize and the timer it arms *)

\* p := atomic.LoadUint32(&h.penalty); if p >= penaltyMaxSize { return };
\* hostPenalties.With(...).Inc()
penalizeLoad(p, h, cap) ==
  /\ ppc[p].pc = "idle"
  /\ hostPenalties[h] < cap
  /\ IF LessU32(penalty[h], U32(penaltyMaxSize))
       THEN /\ ppc' = [ppc EXCEPT ![p] = [pc |-> "add", h |-> h]]
            /\ hostPenalties' = [hostPenalties EXCEPT ![h] = @ + 1]
       ELSE UNCHANGED <<ppc, hostPenalties>>
  /\ UNCHANGED <<hostVars, userVars, decays, scopeVars, config, hbVars>>

\* atomic.AddUint32(&h.penalty, penaltySize)
penalizeAdd(p) ==
  /\ ppc[p].pc = "add"
  /\ penalty' = [penalty EXCEPT ![ppc[p].h] = AddU32(@, U32(penaltySize))]
  /\ ppc' = [ppc EXCEPT ![p].pc = "timer"]
  /\ sc' = noteLoad
  /\ UNCHANGED <<active, hvalue, hostPenalties, decays>>
  /\ UNCHANGED <<userVars, nextIdx, scopeID, calls, config, hbVars>>

\* time.AfterFunc(penaltyDuration, ...)
penalizeAfterFunc(p) ==
  /\ ppc[p].pc = "timer"
  /\ decays' = [decays EXCEPT ![ppc[p].h] = @ + 1]
  /\ ppc' = [ppc EXCEPT ![p] = PIdle]
  /\ UNCHANGED <<hostVars, userVars, hostPenalties, scopeVars, config, hbVars>>

decayDeltaOff == NotU32(U32(penaltySize))

\* ^uint32(penaltySize-1)
decayDelta == NotU32(U32(penaltySize - 1))

\* the function armed by AfterFunc: atomic.AddUint32(&h.penalty, ^uint32(penaltySize-1))
decay(h) ==
  /\ decays[h] > 0
  /\ penalty' = [penalty EXCEPT ![h] = AddU32(@, decayDelta)]
  /\ decays' = [decays EXCEPT ![h] = @ - 1]
  /\ sc' = noteLoad
  /\ UNCHANGED <<active, hvalue, hostPenalties, ppc>>
  /\ UNCHANGED <<userVars, nextIdx, scopeID, calls, config, hbVars>>

\* host.runningQueries: c + p of its two loads
load(c, p) == AddU32(c, p)

\* host.runningQueries when nothing runs between its two loads
runningQueries(h) == load(hvalue[h], penalty[h])

----------------------------------------------------------------------------
(* host.runHeartbeat *)

isActive(h) == active[h] = 1

\* the heartbeat closure, run at the start of runHeartbeat and at every tick;
\* ok is whether isHealthy returned nil
heartbeat(h, ok) ==
  /\ active' = [active EXCEPT ![h] = IF ok THEN 1 ELSE 0]
  /\ sc' = IF active'[h] # active[h] THEN noteFlip(h) ELSE sc
  /\ UNCHANGED <<penalty, hvalue, userVars, penVars, nextIdx, scopeID, calls>>
  /\ UNCHANGED <<config, hbVars>>

\* n + 1, up to MaxTicks + 1
counted(n) == IF n > MaxTicks THEN n ELSE n + 1

\* go h.runHeartbeat(interval, cluster, done): up to the call of isHealthy in
\* the first heartbeat()
runHeartbeat(h) ==
  /\ hb[h].pc = "none"
  /\ hb' = [hb EXCEPT ![h].pc = "heartbeat"]
  /\ UNCHANGED <<hostVars, userVars, penVars, scopeVars, config, done>>

isHealthyKeeps(h, ok) ==
  /\ hb[h].pc = "heartbeat"
  /\ active' = [active EXCEPT ![h] = IF ok THEN 1 ELSE @]
  /\ sc' = IF active'[h] # active[h] THEN noteFlip(h) ELSE sc
  /\ hb' = [hb EXCEPT ![h].pc = "select",
                       ![h].probes = counted(@),
                       ![h].last = IF ok THEN "ok" ELSE "failed"]
  /\ UNCHANGED <<penalty, hvalue, userVars, penVars, nextIdx, scopeID, calls>>
  /\ UNCHANGED <<config, done>>

\* isHealthy returns nil (ok) or an error, heartbeat() stores 1 or 0 in
\* h.active and returns, and the loop comes to its select
isHealthy(h, ok) ==
  /\ hb[h].pc = "heartbeat"
  /\ active' = [active EXCEPT ![h] = IF ok THEN 1 ELSE 0]
  /\ sc' = IF active'[h] # active[h] THEN noteFlip(h) ELSE sc
  /\ hb' = [hb EXCEPT ![h].pc = "select",
                       ![h].probes = counted(@),
                       ![h].last = IF ok THEN "ok" ELSE "failed"]
  /\ UNCHANGED <<penalty, hvalue, userVars, penVars, nextIdx, scopeID, calls>>
  /\ UNCHANGED <<config, done>>

\* case <-time.After(interval): heartbeat(), up to its call of isHealthy. Both
\* cases can be ready when select looks, also with done closed: time.After is
\* called before select looks at the channels
caseAfter(h) ==
  /\ hb[h].pc = "select"
  /\ hb' = [hb EXCEPT ![h].pc = "heartbeat", ![h].ticks = counted(@)]
  /\ UNCHANGED <<hostVars, userVars, penVars, scopeVars, config, done>>

caseDoneOff(h) ==
  /\ hb[h].pc = "select"
  /\ done
  /\ hb' = [hb EXCEPT ![h].pc = "heartbeat"]
  /\ UNCHANGED <<hostVars, userVars, penVars, scopeVars, config, done>>

\* case <-done: return
caseDone(h) ==
  /\ hb[h].pc = "select"
  /\ done
  /\ hb' = [hb EXCEPT ![h].pc = "returned"]
  /\ UNCHANGED <<hostVars, userVars, penVars, scopeVars, config, done>>

\* the caller of runHeartbeat closes done
closeDone ==
  /\ ~done
  /\ done' = TRUE
  /\ hb' = [h \in Hosts |-> [hb[h] EXCEPT !.atDone = hb[h].pc]]
  /\ UNCHANGED <<hostVars, userVars, penVars, scopeVars, config>>

----------------------------------------------------------------------------
(* cluster.getHost, called by newScope *)

\* the loop's i = (i + 1) % l and its test i != idx, after host j
advance(r, j) ==
  LET n == (j + 1) % NumHosts
  IN  IF n = r.idx
        THEN [r EXCEPT !.pc = "final", !.i = 0, !.c = Zero]
        ELSE [r EXCEPT !.pc = "loopActive", !.i = n, !.c = Zero]

\* getHost returns h to newScope, which fails on nil
return(r, h) ==
  [r EXCEPT !.pc = IF h = NoHost THEN "noHosts" ELSE "assignId",
            !.host = h,
            !.idx = 0, !.i = 0, !.idle = 0, !.idleN = Zero, !.c = Zero]

getHostEnterOld(u, cu, t, n) ==
  [NoScope EXCEPT !.pc = "idleCounter", !.user = u, !.clusterUser = cu,
                  !.idx = ModU32(AddU32(t, NotU32(Zero)), NumHosts),
                  !.idle = ModU32(AddU32(t, NotU32(Zero)), NumHosts),
                  !.ticket = t, !.callNo = n]

\* idx := atomic.AddUint32(&c.nextIdx, 1); idx = idx % l; idle := c.hosts[idx]
getHostEnter(u, cu, t, n) ==
  [NoScope EXCEPT !.pc = "idleCounter", !.user = u, !.clusterUser = cu,
                  !.idx = ModU32(t, NumHosts), !.idle = ModU32(t, NumHosts),
                  !.ticket = t, !.callNo = n]

\* idleN := idle.runningQueries(): the load of the counter
getHostIdleCounter(r) == [r EXCEPT !.pc = "idlePenalty", !.c = hvalue[r.idle]]

\* ... and the load of the penalty; if idleN == 0 && ...
getHostIdlePenalty(r) ==
  LET n == load(r.c, penalty[r.idle])
      q == [r EXCEPT !.idleN = n, !.c = Zero]
  IN  IF n = Zero THEN [q EXCEPT !.pc = "idleActive"] ELSE advance(q, q.idx)

\* ... && idle.isActive() { return idle }
getHostIdleActive(r) ==
  IF isActive(r.idle) THEN return(r, r.idle) ELSE advance(r, r.idx)

\* h := c.hosts[i]; if !h.isActive() { continue }
getHostLoopActive(r) ==
  IF isActive(r.i) THEN [r EXCEPT !.pc = "loopCounter"] ELSE advance(r, r.i)

\* n := h.runningQueries(): the load of the counter
getHostLoopCounter(r) == [r EXCEPT !.pc = "loopPenalty", !.c = hvalue[r.i]]

\* ... and the load of the penalty; if n == 0 { return h };
\* if n < idleN { idle, idleN = h, n }
getHostLoopPenalty(r) ==
  LET n == load(r.c, penalty[r.i])
  IN  IF n = Zero THEN return(r, r.i)
      ELSE IF LessU32(n, r.idleN)
        THEN advance([r EXCEPT !.idle = r.i, !.idleN = n], r.i)
        ELSE advance(r, r.i)

getHostFinalUnchecked(r) == return(r, r.idle)

\* if !idle.isActive() { return nil }; return idle
getHostFinal(r) ==
  IF isActive(r.idle) THEN return(r, r.idle) ELSE return(r, NoHost)

\* the next atomic step of a getHost call
getHostStep(r) ==
  CASE r.pc = "idleCounter" -> getHostIdleCounter(r)
    [] r.pc = "idlePenalty" -> getHostIdlePenalty(r)
    [] r.pc = "idleActive" -> getHostIdleActive(r)
    [] r.pc = "loopActive" -> getHostLoopActive(r)
    [] r.pc = "loopCounter" -> getHostLoopCounter(r)
    [] r.pc = "loopPenalty" -> getHostLoopPenalty(r)
    [] r.pc = "final" -> getHostFinal(r)

RECURSIVE getHostRun(_)
\* a getHost call that nothing interleaves with
getHostRun(r) == IF r.pc \in GetHostPcs THEN getHostRun(getHostStep(r)) ELSE r

step(s, r) ==
  /\ sc' = [sc EXCEPT ![s] = r]
  /\ UNCHANGED <<hostVars, userVars, penVars, nextIdx, scopeID, calls>>
  /\ UNCHANGED <<config, hbVars>>

\* newScope(u, cu, c) calls c.getHost(), whose first step is the AddUint32
newScopeCall(s, u, cu) ==
  /\ sc[s].pc = "none"
  /\ calls < MaxCalls
  /\ nextIdx' = AddU32(nextIdx, U32(1))
  /\ calls' = calls + 1
  /\ sc' = [sc EXCEPT ![s] = getHostEnter(u, cu, nextIdx', calls')]
  /\ UNCHANGED <<hostVars, userVars, penVars, scopeID, config, hbVars>>

\* one step of the getHost call of newScope
getHost(s) ==
  /\ sc[s].pc \in GetHostPcs
  /\ step(s, getHostStep(sc[s]))

\* newScope up to the return of getHost, when no heartbeat, inc, dec or
\* penalty runs during getHost
newScope(s, u, cu) ==
  /\ sc[s].pc = "none"
  /\ calls < MaxCalls
  /\ nextIdx' = AddU32(nextIdx, U32(1))
  /\ calls' = calls + 1
  /\ sc' = [sc EXCEPT ![s] =
              forget(getHostRun(getHostEnter(u, cu, nextIdx', calls')))]
  /\ UNCHANGED <<hostVars, userVars, penVars, scopeID, config, hbVars>>

newScopeIDLost(s) ==
  /\ sc[s].pc = "assignId"
  /\ sc' = [sc EXCEPT ![s] = [forget(sc[s]) EXCEPT !.pc = "created",
                                                  !.id = AddU32(scopeID, U32(1))]]
  /\ UNCHANGED <<hostVars, userVars, penVars, nextIdx, scopeID, calls, config, hbVars>>

\* id: atomic.AddUint32(&scopeID, 1)
newScopeID(s) ==
  /\ sc[s].pc = "assignId"
  /\ scopeID' = AddU32(scopeID, U32(1))
  /\ sc' = [sc EXCEPT ![s] = [forget(sc[s]) EXCEPT !.pc = "created",
                                                  !.id = scopeID']]
  /\ UNCHANGED <<hostVars, userVars, penVars, nextIdx, calls, config, hbVars>>

\* the request is over and the next one takes its place
endRequest(s) ==
  /\ sc[s].pc \in {"created", "noHosts", "rejected", "released"}
  /\ step(s, NoScope)

----------------------------------------------------------------------------
(* scope.inc and scope.dec *)

overLimitInclusive(q, max) == max > 0 /\ ~LessU32(q, U32(max))

overLimitOff(q, max) == max > 0 /\ LessU32(U32(max + 1), q)

\* maxConcurrentQueries > 0 && q > maxConcurrentQueries
overLimit(q, max) == max > 0 /\ LessU32(U32(max), q)

\* uq := s.user.inc()
incUser(s) ==
  /\ sc[s].pc = "created"
  /\ uvalue' = [uvalue EXCEPT ![sc[s].user] = inc(@)]
  /\ sc' = [sc EXCEPT ![s].pc = "incClusterUser",
                       ![s].uq = uvalue'[sc[s].user]]
  /\ UNCHANGED <<hostVars, cuvalue, penVars, nextIdx, scopeID, calls, config, hbVars>>

\* cq := s.clusterUser.inc()
incClusterUser(s) ==
  /\ sc[s].pc = "incClusterUser"
  /\ cuvalue' = [cuvalue EXCEPT ![sc[s].clusterUser] = inc(@)]
  /\ sc' = [sc EXCEPT ![s].pc = "incHost",
                       ![s].cq = cuvalue'[sc[s].clusterUser]]
  /\ UNCHANGED <<hostVars, uvalue, penVars, nextIdx, scopeID, calls, config, hbVars>>

incReturnNoDec(r, err) ==
  [r EXCEPT !.pc = IF err THEN "rejected" ELSE "admitted", !.err = err]

\* what inc does once its two tests have set err: s.dec() and return err, or
\* return nil
incReturn(r, err) ==
  [r EXCEPT !.pc = IF err THEN "failed" ELSE "admitted", !.err = err]

\* s.host.inc(), then the two tests of the limits
incHost(s) ==
  /\ sc[s].pc = "incHost"
  /\ hvalue' = [hvalue EXCEPT ![sc[s].host] = inc(@)]
  /\ sc' = [noteLoad EXCEPT ![s] =
              incReturn(sc[s],
                        \/ overLimit(sc[s].uq, userMax(sc[s].user))
                        \/ overLimit(sc[s].cq, clusterUserMax(sc[s].clusterUser)))]
  /\ UNCHANGED <<active, penalty, userVars, penVars, nextIdx, scopeID, calls,
                 config, hbVars>>

\* s.host.dec(): the first step of dec, called by inc on an error and by the
\* proxy once for an admitted scope
decHost(s) ==
  /\ sc[s].pc \in {"failed", "admitted"}
  /\ hvalue' = [hvalue EXCEPT ![sc[s].host] = dec(@)]
  /\ sc' = [noteLoad EXCEPT ![s] =
              [sc[s] EXCEPT !.pc = "decUser", !.uq = Zero, !.cq = Zero]]
  /\ UNCHANGED <<active, penalty, userVars, penVars, nextIdx, scopeID, calls,
                 config, hbVars>>

decUserSkipped(s) ==
  /\ sc[s].pc = "decUser"
  /\ sc' = [sc EXCEPT ![s].pc = "decClusterUser"]
  /\ UNCHANGED <<hostVars, userVars, penVars, nextIdx, scopeID, calls, config, hbVars>>

\* s.user.dec()
decUser(s) ==
  /\ sc[s].pc = "decUser"
  /\ uvalue' = [uvalue EXCEPT ![sc[s].user] = dec(@)]
  /\ sc' = [sc EXCEPT ![s].pc = "decClusterUser"]
  /\ UNCHANGED <<hostVars, cuvalue, penVars, nextIdx, scopeID, calls, config, hbVars>>

decClusterUserSkipped(s) ==
  /\ sc[s].pc = "decClusterUser"
  /\ sc' = [sc EXCEPT ![s].pc = IF sc[s].err THEN "rejected" ELSE "released"]
  /\ UNCHANGED <<hostVars, userVars, penVars, nextIdx, scopeID, calls, config, hbVars>>

\* s.clusterUser.dec(); dec returns, and inc returns err if it was the caller
decClusterUser(s) ==
  /\ sc[s].pc = "decClusterUser"
  /\ cuvalue' = [cuvalue EXCEPT ![sc[s].clusterUser] = dec(@)]
  /\ sc' = [sc EXCEPT ![s].pc = IF sc[s].err THEN "rejected" ELSE "released"]
  /\ UNCHANGED <<hostVars, uvalue, penVars, nextIdx, scopeID, calls, config, hbVars>>

\* the whole of s.inc() when no other inc or dec runs during it: the three
\* incs, the two tests, and s.dec() if they set err
scopeInc(s) ==
  LET u == sc[s].user
      cu == sc[s].clusterUser
      h == sc[s].host
      uq == inc(uvalue[u])
      cq == inc(cuvalue[cu])
      hq == inc(hvalue[h])
      err == \/ overLimit(uq, userMax(u))
             \/ overLimit(cq, clusterUserMax(cu))
  IN  /\ sc[s].pc = "created"
      /\ uvalue' = [uvalue EXCEPT ![u] = IF err THEN dec(uq) ELSE uq]
      /\ cuvalue' = [cuvalue EXCEPT ![cu] = IF err THEN dec(cq) ELSE cq]
      /\ hvalue' = [hvalue EXCEPT ![h] = IF err THEN dec(hq) ELSE hq]
      /\ sc' = [noteLoad EXCEPT ![s] =
                  IF err THEN [sc[s] EXCEPT !.pc = "rejected", !.err = TRUE]
                  ELSE [sc[s] EXCEPT !.pc = "admitted", !.uq = uq, !.cq = cq]]
      /\ UNCHANGED <<active, penalty, penVars, nextIdx, scopeID, calls, config,
                     hbVars>>

\* the whole of s.dec() for an admitted scope, likewise
scopeDec(s) ==
  /\ sc[s].pc = "admitted"
  /\ hvalue' = [hvalue EXCEPT ![sc[s].host] = dec(@)]
  /\ uvalue' = [uvalue EXCEPT ![sc[s].user] = dec(@)]
  /\ cuvalue' = [cuvalue EXCEPT ![sc[s].clusterUser] = dec(@)]
  /\ sc' = [noteLoad EXCEPT ![s] =
              [sc[s] EXCEPT !.pc = "released", !.uq = Zero, !.cq = Zero]]
  /\ UNCHANGED <<active, penalty, penVars, nextIdx, scopeID, calls, config,
                 hbVars>>

----------------------------------------------------------------------------
(* scope.decorateRequest and scope.killQuery *)

\* -x, which is 2^32 - x
NegU32(x) == AddU32(NotU32(x), U32(1))

\* strconv.Itoa(int(id)): int(id) is id where int has 64 bits, and id - 2^32
\* for id >= 2^31 where it has 32
itoaInt(id) ==
  IF intSize = 32 /\ id[1] >= Half \div 2
    THEN Numeral(TRUE, NegU32(id))
    ELSE Numeral(FALSE, id)

\* fmt.Sprintf("%d", id) of the uint32 id
sprintfD(id) == Numeral(FALSE, id)

\* url.QueryEscape of a string of the characters "a", " " and "+"
queryEscapeChar(c) == CASE c = " " -> "+" [] c = "+" -> "%2B" [] OTHER -> c

QueryEscapeOff(str) == str

QueryEscape(str) ==
  IF str = <<>> THEN <<>> ELSE [i \in 1 .. Len(str) |-> queryEscapeChar(str[i])]

\* url.QueryUnescape of a raw value fails on a % that no two hex digits follow
wellFormed(raw) == \A i \in 1 .. Len(raw) : raw[i] # "%zz"

unescapeToken(t) ==
  CASE t = "+" -> " " [] t = "%20" -> " " [] t = "%2B" -> "+" [] OTHER -> t

QueryUnescape(raw) ==
  IF raw = <<>> THEN <<>> ELSE [i \in 1 .. Len(raw) |-> unescapeToken(raw[i])]

\* req.URL.Query().Get("query"): Query() leaves out the pairs that do not
\* unescape, and Get gives the first value left, or "" without one
getQuery(req) ==
  LET values == SelectSeq(req.query, wellFormed)
  IN  IF values = <<>> THEN <<>> ELSE QueryUnescape(Head(values))

\* the body of decorateRequest: the request req as scope r rewrites it
decorate(r, req) ==
  LET q == getQuery(req)
  IN  Request(hostScheme(r.host), r.host, req.path, TRUE, itoaInt(r.id),
              IF Len(q) > 0 THEN <<QueryEscape(q)>> ELSE <<>>, {},
              BasicAuth(clusterUserName(r.clusterUser),
                        clusterUserPassword(r.clusterUser)),
              <<userName(r.user), clusterUserName(r.clusterUser)>> \o req.ua)

\* s.decorateRequest(req) of the request req that came in for the scope
decorateRequest(s, req) ==
  /\ sc[s].pc = "admitted"
  /\ ~sc[s].req.decorated
  /\ step(s, [sc[s] EXCEPT !.req =
                Tracked(decorate(sc[s], req), TRUE, FALSE, req)])

\* s.decorateRequest(req) once more, of the request it has returned
decorateRequestAgain(s) ==
  /\ sc[s].pc = "admitted"
  /\ sc[s].req.decorated
  /\ ~sc[s].req.twice
  /\ ~sc[s].kill.called
  /\ step(s, [sc[s] EXCEPT !.req =
                Tracked(decorate(sc[s], sc[s].req), TRUE, TRUE,
                        sc[s].req.inbound)])

\* the responses of the host in this model: no response, and four statuses
Responses ==
  {Response(TRUE, 0), Response(FALSE, 200), Response(FALSE, 204),
   Response(FALSE, 404), Response(FALSE, 500)}

\* of them, a failure and a success
FailureOrSuccess == {Response(TRUE, 0), Response(FALSE, 200)}

statusOK2xx(status) == status \in 200 .. 299

\* resp.StatusCode != http.StatusOK is the error
statusOK(status) == status = 200

\* the KILL QUERY request that killQuery posts, and what killQuery returns
\* when Do returns resp
killed(r, resp) ==
  [called |-> TRUE, sent |-> TRUE, host |-> r.host,
   query_id |-> sprintfD(r.id),
   result |-> IF resp.failed \/ ~statusOK(resp.status) THEN "error" ELSE "nil",
   posts |-> r.kill.posts + 1, resp |-> resp]

killQueryReleasing(s, resp) ==
  /\ sc[s].pc = "admitted"
  /\ sc[s].req.decorated
  /\ ~sc[s].kill.called
  /\ hvalue' = [hvalue EXCEPT ![sc[s].host] = dec(@)]
  /\ sc' = [sc EXCEPT ![s].kill = killed(sc[s], resp)]
  /\ UNCHANGED <<active, penalty, userVars, penVars, nextIdx, scopeID, calls,
                 config, hbVars>>

\* killQuery, called when the execution time of a dispatched request is
\* exceeded: nothing without a kill_query_user, else a POST to s.host.addr of
\* "KILL QUERY WHERE query_id = '%d'" with s.id
killQuery(s, resp) ==
  /\ sc[s].pc = "admitted"
  /\ sc[s].req.decorated
  /\ ~sc[s].kill.called
  /\ step(s, [sc[s] EXCEPT !.kill =
                IF killQueryUserName = ""
                  THEN [NoKill EXCEPT !.called = TRUE, !.result = "nil"]
                  ELSE killed(sc[s], resp)])

----------------------------------------------------------------------------
(* Penalties of one host under concurrent penalize calls *)

NextPenalty ==
  \/ \E p \in Penalizers : penalizeLoad(p, 0, MaxPenalties)
  \/ \E p \in Penalizers : penalizeAdd(p)
  \/ \E p \in Penalizers : penalizeAfterFunc(p)
  \/ \E h \in Hosts : decay(h)

SpecPenalty == Init /\ [][NextPenalty]_vars

\* C6: the penalty of a host is a multiple of 5 between 0 and 300
PenaltyBound ==
  \A h \in Hosts :
    /\ ~LessU32(U32(penaltyMaxSize), penalty[h])
    /\ ModU32(penalty[h], penaltySize) = 0

timersDue(h) ==
  decays[h] + Cardinality({p \in Penalizers : ppc[p] = [pc |-> "timer", h |-> h]})

penalizing(h) == \E p \in Penalizers : ppc[p].pc # "idle" /\ ppc[p].h = h

\* C7: every 5 added to a penalty has exactly one subtraction of 5 armed or
\* about to be armed, so once no penalize call is in progress and no timer is
\* left the penalty is 0 and the host's load is its query counter
PenaltySelfHealing ==
  \A h \in Hosts :
    /\ penalty[h] = U32(penaltySize * timersDue(h))
    /\ (~penalizing(h) /\ decays[h] = 0) =>
         (penalty[h] = Zero /\ runningQueries(h) = hvalue[h])

PenaltyHealedWitness ==
  \E h \in Hosts :
    /\ hostPenalties[h] >= 2
    /\ ~penalizing(h)
    /\ decays[h] = 0
    /\ penalty[h] = Zero

----------------------------------------------------------------------------
(* Host selection by one request after the other, while heartbeats and *)
(* penalties change the hosts                                           *)

NextHost ==
  \/ newScopeCall(1, 1, 1)
  \/ getHost(1)
  \/ newScopeID(1)
  \/ endRequest(1)
  \/ \E h \in Hosts, ok \in BOOLEAN : heartbeat(h, ok)
  \/ \E h \in Hosts : penalizeLoad(1, h, MaxHostPenalties)
  \/ penalizeAdd(1)
  \/ penalizeAfterFunc(1)
  \/ \E h \in Hosts : decay(h)

SpecHost == Init /\ [][NextHost]_vars

\* C4: getHost returns nil only if no host was active throughout the call
NoneOnlyWhenAllInactive ==
  \A s \in Scopes :
    (sc[s].pc = "noHosts" /\ sc[s].callNo > 0) =>
      ~ \E h \in Hosts : isActive(h) /\ h \notin sc[s].flipped

\* C5: a host that getHost returns is active when getHost returns
ReturnedHostActive ==
  [][\A s \in Scopes :
       (sc[s].pc \in GetHostPcs /\ sc'[s].pc = "assignId") =>
         active'[sc'[s].host] = 1]_vars

\* C5, amended: a host that getHost returns is active when getHost returns
\* unless a heartbeat has changed its flag since the call began
ReturnedHostActiveUnlessFlipped ==
  \A s \in Scopes :
    (sc[s].pc = "assignId" /\ sc[s].callNo > 0
       /\ sc[s].host \notin sc[s].flipped) =>
      isActive(sc[s].host)

\* a call during which a heartbeat switched another host off returned a
\* host of load 5 after its scan
ReturnedHostActiveWitness ==
  \E s \in Scopes :
    /\ sc[s].pc = "assignId"
    /\ sc[s].flipped # {}
    /\ sc[s].host \notin sc[s].flipped
    /\ isActive(sc[s].host)
    /\ penalty[sc[s].host] = U32(penaltySize)
    /\ sc[s].host # ModU32(sc[s].ticket, NumHosts)

\* the place of host h in the scan that starts at host start
scanPos(h, start) == (h - start + NumHosts) % NumHosts

\* the host of S that the scan from start reaches first
firstScanned(S, start) ==
  CHOOSE h \in S : \A g \in S : scanPos(h, start) <= scanPos(g, start)

\* the active hosts, those of them with load 0, and those of them whose load
\* no active host is below
activeHosts == {h \in Hosts : isActive(h)}
idleHosts == {h \in activeHosts : runningQueries(h) = Zero}
leastLoaded ==
  {h \in activeHosts :
     \A g \in activeHosts : ~LessU32(runningQueries(g), runningQueries(h))}

\* what a getHost call that started its scan at host start has to return
picked(start) ==
  IF idleHosts # {} THEN firstScanned(idleHosts, start)
  ELSE firstScanned(leastLoaded, start)

\* C11: a getHost call during which no host changed returns the first active
\* host of load 0 in the order of its scan, and without such a host the first
\* of the active hosts of least load
LeastLoadedFirst ==
  \A s \in Returned :
    (sc[s].stable /\ activeHosts # {}) =>
      sc[s].host = picked(ModU32(sc[s].ticket, NumHosts))

\* C11 for the calls whose scan starts at an active host, or at a host with a
\* load above that of some active host: there getHost returns as C11 says
LeastLoadedFirstFromActive ==
  \A s \in Returned :
    LET start == ModU32(sc[s].ticket, NumHosts)
    IN  (/\ sc[s].stable
         /\ activeHosts # {}
         /\ \/ isActive(start)
            \/ \E h \in activeHosts :
                 LessU32(runningQueries(h), runningQueries(start))) =>
          sc[s].host = picked(start)

----------------------------------------------------------------------------
(* The same, from a cursor that may be about to wrap, with penalties on the *)
(* first host only                                                          *)

NextRR ==
  \/ newScopeCall(1, 1, 1)
  \/ getHost(1)
  \/ newScopeID(1)
  \/ endRequest(1)
  \/ \E h \in Hosts, ok \in BOOLEAN : heartbeat(h, ok)
  \/ penalizeLoad(1, 0, MaxHostPenalties)
  \/ penalizeAdd(1)
  \/ penalizeAfterFunc(1)
  \/ \E h \in Hosts : decay(h)

SpecRR == InitCursor /\ [][NextRR]_vars

\* every host is active with load 0, and was throughout the call of s
AllIdle(s) ==
  /\ sc[s].stable
  /\ \A h \in Hosts : isActive(h) /\ runningQueries(h) = Zero

\* (c + k) mod n, of the numbers c and k
PlainMod(c, k, n) == (((c[1] % n) * (Half % n)) + ((c[2] + k) % n)) % n

\* C10: with all hosts active and idle, the k-th getHost call from cursor c
\* returns hosts[(c + k) mod n]
RoundRobin ==
  \A s \in Returned :
    AllIdle(s) => sc[s].host = PlainMod(startIdx, sc[s].callNo, NumHosts)

\* C10, amended: ... returns hosts[((c + k) mod 2^32) mod n]
RoundRobinWrapping ==
  \A s \in Returned :
    AllIdle(s) =>
      sc[s].host = ModU32(AddU32(startIdx, U32(sc[s].callNo)), NumHosts)

\* hosts [A, B, C], nextIdx = 0: the fourth call returns B
RoundRobinWitness ==
  \E s \in Returned :
    /\ AllIdle(s)
    /\ startIdx = Zero
    /\ sc[s].callNo = 4
    /\ sc[s].host = 1
    /\ hostPenalties[0] = 1

----------------------------------------------------------------------------
(* Requests of any user and cluster user, admitted and released concurrently *)

NextAdmit ==
  \/ \E s \in Scopes, u \in Users, cu \in ClusterUsers : newScope(s, u, cu)
  \/ \E s \in Scopes : newScopeID(s)
  \/ \E s \in Scopes : incUser(s)
  \/ \E s \in Scopes : incClusterUser(s)
  \/ \E s \in Scopes : incHost(s)
  \/ \E s \in Scopes : decHost(s)
  \/ \E s \in Scopes : decUser(s)
  \/ \E s \in Scopes : decClusterUser(s)
  \/ \E h \in Hosts, ok \in BOOLEAN : heartbeat(h, ok)

SpecAdmit == Init /\ [][NextAdmit]_vars

\* no inc and no dec is running in s
AtRest(s) ==
  sc[s].pc \in {"none", "assignId", "noHosts", "created", "admitted",
                "rejected", "released"}

\* C1: once every inc has returned and every admitted scope is released, all
\* counters have the values they had before
CountersRestored ==
  (\A s \in Scopes : AtRest(s) /\ sc[s].pc # "admitted") =>
    /\ \A u \in Users : uvalue[u] = Zero
    /\ \A cu \in ClusterUsers : cuvalue[cu] = Zero
    /\ \A h \in Hosts : hvalue[h] = Zero

CountersRestoredWitness ==
  /\ \E s \in Scopes : sc[s].pc = "released"
  /\ \E s \in Scopes : sc[s].pc = "rejected"
  /\ \A u \in Users : uvalue[u] = Zero
  /\ \A cu \in ClusterUsers : cuvalue[cu] = Zero
  /\ \A h \in Hosts : hvalue[h] = Zero

\* the scopes that inc has admitted and whose dec has not yet decremented the
\* counter of their user, and of their cluster user
Admitted == {s \in Scopes : sc[s].pc = "admitted"}
HoldsUser == {s \in Scopes : sc[s].pc = "decUser" /\ ~sc[s].err} \cup Admitted
HoldsClusterUser ==
  {s \in Scopes : sc[s].pc = "decClusterUser" /\ ~sc[s].err} \cup HoldsUser

\* the scopes whose inc is in flight: it has incremented the counter of the
\* user, or of the cluster user, and has not returned nil nor decremented it
InFlightUser ==
  {s \in Scopes : \/ sc[s].pc \in {"incClusterUser", "incHost", "failed"}
                  \/ sc[s].pc = "decUser" /\ sc[s].err}
InFlightClusterUser ==
  {s \in Scopes : \/ sc[s].pc \in {"incHost", "failed"}
                  \/ sc[s].pc \in {"decUser", "decClusterUser"} /\ sc[s].err}

OfUser(S, u) == {s \in S : sc[s].user = u}
OfClusterUser(S, cu) == {s \in S : sc[s].clusterUser = cu}

\* x <= n, for a uint32 x and a number n
AtMost(x, n) == x[1] = 0 /\ x[2] <= n

\* C2: a counter with limit M > 0 is at most M plus the incs in flight, an
\* admitted scope saw at most M, and at most M scopes are admitted and not
\* released
AdmissionBound ==
  /\ \A u \in Users :
       userMax(u) > 0 =>
         /\ AtMost(uvalue[u],
                   userMax(u) + Cardinality(OfUser(InFlightUser, u)))
         /\ Cardinality(OfUser(HoldsUser, u)) <= userMax(u)
         /\ \A s \in OfUser(Admitted, u) : AtMost(sc[s].uq, userMax(u))
  /\ \A cu \in ClusterUsers :
       clusterUserMax(cu) > 0 =>
         /\ AtMost(cuvalue[cu],
                   clusterUserMax(cu)
                     + Cardinality(OfClusterUser(InFlightClusterUser, cu)))
         /\ Cardinality(OfClusterUser(HoldsClusterUser, cu)) <= clusterUserMax(cu)
         /\ \A s \in OfClusterUser(Admitted, cu) :
              AtMost(sc[s].cq, clusterUserMax(cu))

\* the counter of a user with limit 1 is at 2: one scope admitted, one inc in
\* flight
AdmissionBoundWitness ==
  \E s, t \in Scopes :
    /\ sc[s].pc = "admitted" /\ sc[s].user = 0
    /\ sc[t].pc = "failed" /\ sc[t].user = 0
    /\ uvalue[0] = U32(2)

\* C3: once an inc has failed and returned, the three counters of its scope
\* count the admitted scopes only (when no other inc or dec is running)
NoNetIncrement ==
  \A s \in Scopes :
    (sc[s].pc = "rejected" /\ \A t \in Scopes : AtRest(t)) =>
      /\ uvalue[sc[s].user] = U32(Cardinality(OfUser(Admitted, sc[s].user)))
      /\ cuvalue[sc[s].clusterUser] =
           U32(Cardinality(OfClusterUser(Admitted, sc[s].clusterUser)))
      /\ hvalue[sc[s].host] =
           U32(Cardinality({t \in Admitted : sc[t].host = sc[s].host}))

\* a user with limit 1 and one admitted scope: the next inc is rejected and
\* the counter ends at 1
NoNetIncrementWitness ==
  \E s, t \in Scopes :
    /\ sc[s].pc = "rejected" /\ sc[s].user = 0 /\ sc[s].clusterUser = 1
    /\ sc[t].pc = "admitted" /\ sc[t].user = 0 /\ sc[t].host = sc[s].host
    /\ uvalue[0] = U32(1)
    /\ hvalue[sc[s].host] = U32(1)

----------------------------------------------------------------------------
(* Requests of a user without limits from newScope to dec, concurrently, in *)
(* builds with an int of 32 and of 64 bits                                   *)

\* uint32(time.Now().UnixNano()) is any uint32: here a small one and 2^32 - 2
ScopeIDSeeds == {U32(6), <<Half - 1, Half - 2>>}

InitScope == InitWith({Zero}, ScopeIDSeeds, {32, 64}, {"default"})

NextScope ==
  \/ \E s \in Scopes : newScope(s, 1, 1)
  \/ \E s \in Scopes : newScopeID(s)
  \/ \E s \in Scopes : incUser(s)
  \/ \E s \in Scopes : incClusterUser(s)
  \/ \E s \in Scopes : incHost(s)
  \/ \E s \in Scopes : decorateRequest(s, PlainRequest)
  \/ \E s \in Scopes, resp \in FailureOrSuccess : killQuery(s, resp)
  \/ \E s \in Scopes : decHost(s)
  \/ \E s \in Scopes : decUser(s)
  \/ \E s \in Scopes : decClusterUser(s)
  \/ \E h \in Hosts, ok \in BOOLEAN : heartbeat(h, ok)

SpecScope == InitScope /\ [][NextScope]_vars

\* the scopes that newScope has returned
Created ==
  {s \in Scopes : sc[s].pc \notin GetHostPcs \cup {"none", "assignId", "noHosts"}}

\* C8: no two scopes share an id, and scopeID has advanced by the number of
\* scopes created: a newScope that failed took no id
ScopeIDsUnique ==
  /\ \A s, t \in Created : s # t => sc[s].id # sc[t].id
  /\ scopeID = AddU32(startID, U32(Cardinality(Created)))

\* two scopes created with scopeID wrapping in between
ScopeIDsUniqueWitness ==
  \E s, t \in Created :
    /\ sc[s].id = <<Half - 1, Half - 1>>
    /\ sc[t].id = Zero

\* C9: killQuery posts to the host, and names the query_id, that
\* decorateRequest has put into the outbound request
KillTargetsDispatched ==
  \A s \in Scopes :
    sc[s].kill.sent =>
      /\ sc[s].kill.host = sc[s].req.host
      /\ sc[s].kill.query_id = sc[s].req.query_id

\* C9 where int has 64 bits: there the two requests agree
KillTargetsDispatched64 == intSize = 64 => KillTargetsDispatched

----------------------------------------------------------------------------
(* One request from newScope to dec with killQuery after it is dispatched,  *)
(* with and without a kill_query_user, while heartbeats and penalties go on *)

InitKill == InitWith({Zero}, {U32(6)}, {64}, {"", "default"})

NextKill ==
  \/ \E u \in Users, cu \in ClusterUsers : newScope(1, u, cu)
  \/ newScopeID(1)
  \/ incUser(1)
  \/ incClusterUser(1)
  \/ incHost(1)
  \/ decorateRequest(1, PlainRequest)
  \/ \E resp \in Responses : killQuery(1, resp)
  \/ decHost(1)
  \/ decUser(1)
  \/ decClusterUser(1)
  \/ \E h \in Hosts, ok \in BOOLEAN : heartbeat(h, ok)
  \/ penalizeLoad(1, 0, MaxHostPenalties)
  \/ penalizeAdd(1)
  \/ penalizeAfterFunc(1)
  \/ decay(0)

SpecKill == InitKill /\ [][NextKill]_vars

\* what killQuery has done and returned, when success(resp) says which
\* responses make it return nil
killOutcome(k, success(_)) ==
  IF killQueryUserName = ""
    THEN k.posts = 0 /\ ~k.sent /\ k.result = "nil"
    ELSE /\ k.posts = 1
         /\ k.sent
         /\ k.result = IF ~k.resp.failed /\ success(k.resp) THEN "nil" ELSE "error"

is2xx(resp) == resp.status \in 200 .. 299

is200(resp) == resp.status = 200

\* C12: killQuery returns nil without a request when the cluster has no
\* kill_query_user; else it makes one POST and returns nil for every 2xx
\* status, and an error for every other status and when the POST fails
KillOutcomes ==
  \A s \in Scopes : sc[s].kill.called => killOutcome(sc[s].kill, is2xx)

\* C12, amended: ... and returns nil for the status 200 only, and an error for
\* every other status, those from 201 to 299 too, and when the POST fails
KillOutcomes200 ==
  \A s \in Scopes : sc[s].kill.called => killOutcome(sc[s].kill, is200)

\* the host answered 204 and killQuery returned an error after its one POST
KillOutcomesWitness ==
  \E s \in Scopes :
    /\ sc[s].kill.called
    /\ sc[s].kill.resp = Response(FALSE, 204)
    /\ sc[s].kill.posts = 1
    /\ sc[s].kill.result = "error"

\* a step of killQuery, and a step that takes one from a query counter
killQueryStep(s) == ~sc[s].kill.called /\ sc'[s].kill.called

decremented(old, new) == \E x \in DOMAIN old : new[x] # old[x] /\ new[x] = dec(old[x])

\* C13: killQuery changes no counter, penalty, active flag or cursor, whatever
\* it returns, and a counter goes down only in a step of dec
KillLeavesAccounting ==
  [][/\ \A s \in Scopes :
          killQueryStep(s) =>
            UNCHANGED <<hvalue, uvalue, cuvalue, penalty, active, nextIdx>>
     /\ (\/ decremented(hvalue, hvalue')
         \/ decremented(uvalue, uvalue')
         \/ decremented(cuvalue, cuvalue')) =>
          \E s \in Scopes :
            /\ sc[s].pc \in {"failed", "admitted", "decUser", "decClusterUser"}
            /\ sc'[s].pc \in {"decUser", "decClusterUser", "rejected", "released"}
            /\ sc'[s].pc # sc[s].pc
            /\ sc'[s].kill = sc[s].kill]_vars

\* killQuery has returned an error for a scope on a penalized host, and the
\* three counters still count the scope
KillLeavesAccountingWitness ==
  \E s \in Scopes :
    /\ sc[s].pc = "admitted"
    /\ sc[s].kill.result = "error"
    /\ hvalue[sc[s].host] = U32(1)
    /\ uvalue[sc[s].user] = U32(1)
    /\ cuvalue[sc[s].clusterUser] = U32(1)
    /\ penalty[sc[s].host] = U32(penaltySize)

----------------------------------------------------------------------------
(* One request from newScope to dec, decorated once and once more, for the *)
(* requests that may come in, in builds with an int of 32 and of 64 bits    *)

\* raw values of a query parameter: empty, plain, with an escaped space or
\* plus, and one that does not unescape
RawValues == {<<>>, <<"a">>, <<"a", "+">>, <<"%20", "a">>, <<"%2B">>, <<"%zz">>}

\* the query parameters of a request: none, one, or two
RawQueries ==
  {<<>>} \cup {<<v>> : v \in RawValues}
         \cup {<< <<"a">>, <<"%2B">> >>, << <<"%zz">>, <<"a">> >>}

\* the requests that come in: with and without a query_id and a database
\* parameter of their own, with credentials of any scheme or none
InboundRequests ==
  {Request("", NoHost, path, id[1], id[2], q, others, auth, <<"curl">>) :
     path \in {"/", "/query"},
     id \in {<<FALSE, Numeral(FALSE, Zero)>>, <<TRUE, Numeral(FALSE, U32(7))>>},
     q \in RawQueries,
     others \in {{}, {"database"}},
     auth \in {<<>>, <<"Bearer", "token">>, <<"Basic", "web", "secret">>}}

NextDecorate ==
  \/ \E u \in Users : newScope(1, u, u)
  \/ newScopeID(1)
  \/ incUser(1)
  \/ incClusterUser(1)
  \/ incHost(1)
  \/ \E req \in InboundRequests : decorateRequest(1, req)
  \/ decorateRequestAgain(1)
  \/ decHost(1)
  \/ decUser(1)
  \/ decClusterUser(1)
  \/ \E h \in Hosts, ok \in BOOLEAN : heartbeat(h, ok)

SpecDecorate == InitScope /\ [][NextDecorate]_vars

\* the outbound request of scope s has the query_id of s and the first query
\* value of the inbound request and no other parameter, the credentials of
\* the cluster user and the address of the host, and the path it came with
purified(s) ==
  LET out == sc[s].req
      in == sc[s].req.inbound
  IN  /\ out.hasID
      /\ out.query_id = Numeral(FALSE, sc[s].id)
      /\ out.others = {}
      /\ (out.query # <<>>) <=> (in.query # <<>>)
      /\ in.query # <<>> =>
           /\ Len(out.query) = 1
           /\ QueryUnescape(out.query[1]) = QueryUnescape(in.query[1])
      /\ out.auth = BasicAuth(clusterUserName(sc[s].clusterUser),
                              clusterUserPassword(sc[s].clusterUser))
      /\ out.scheme = hostScheme(sc[s].host)
      /\ out.host = sc[s].host
      /\ out.path = in.path

\* C14: after decorateRequest the URL has exactly query_id = the decimal id
\* of the scope and, if and only if the inbound request had a query
\* parameter, query = its value; the Authorization is Basic of the cluster
\* user; scheme and host are those of the scope's host and the path is kept
RequestPurified == \A s \in Scopes : sc[s].req.decorated => purified(s)

\* C14 where the id is below 2^31 or int has 64 bits, for the requests
\* without a query parameter or whose first one is not empty and unescapes
RequestPurifiedSmallID ==
  \A s \in Scopes :
    LET in == sc[s].req.inbound
    IN  (/\ sc[s].req.decorated
         /\ intSize = 64 \/ sc[s].id[1] < Half \div 2
         /\ in.query # <<>> => (in.query[1] # <<>> /\ wellFormed(in.query[1]))) =>
          purified(s)

\* scheme, host, path and parameters of the URL of a request
urlOf(q) == <<q.scheme, q.host, q.path, q.hasID, q.query_id, q.query, q.others>>

\* C18: decorateRequest of a request it has decorated leaves the URL and the
\* Authorization as they are, and puts its prefix before the User-Agent again
DecorateIdempotent ==
  [][\A s \in Scopes :
       (sc[s].req.decorated /\ ~sc[s].req.twice /\ sc'[s].req.twice) =>
         /\ urlOf(sc'[s].req) = urlOf(sc[s].req)
         /\ sc'[s].req.auth = sc[s].req.auth
         /\ sc'[s].req.ua # sc[s].req.ua
         /\ sc'[s].req.ua =
              <<userName(sc[s].user), clusterUserName(sc[s].clusterUser)>>
                \o sc[s].req.ua]_vars

\* a request that came in with query=%2B, a query_id, a database and a Bearer
\* token, decorated twice
DecorateIdempotentWitness ==
  \E s \in Scopes :
    /\ sc[s].req.twice
    /\ sc[s].req.inbound.query = << <<"%2B">> >>
    /\ sc[s].req.inbound.hasID
    /\ sc[s].req.inbound.others = {"database"}
    /\ sc[s].req.inbound.auth = <<"Bearer", "token">>
    /\ sc[s].req.query = << <<"%2B">> >>
    /\ Len(sc[s].req.ua) = 5

----------------------------------------------------------------------------
(* Two requests of the user and the cluster user with limit 1, racing: an *)
(* inc that has set err goes on to its s.dec() and returns                 *)

NextRace ==
  \/ \E s \in Scopes : newScope(s, 0, 0)
  \/ \E s \in Scopes : newScopeID(s)
  \/ \E s \in Scopes : incUser(s)
  \/ \E s \in Scopes : incClusterUser(s)
  \/ \E s \in Scopes : incHost(s)
  \/ \E s \in Scopes : decHost(s)
  \/ \E s \in Scopes : decUser(s)
  \/ \E s \in Scopes : decClusterUser(s)
  \/ \E h \in Hosts, ok \in BOOLEAN : heartbeat(h, ok)

\* the s.dec() of an inc that has failed runs to its end: inc is one
\* goroutine's straight-line code and none of its steps waits
rollback(s) ==
  \/ sc[s].pc = "failed" /\ decHost(s)
  \/ sc[s].err /\ decUser(s)
  \/ sc[s].err /\ decClusterUser(s)

SpecRace ==
  Init /\ [][NextRace]_vars /\ \A s \in Scopes : WF_vars(rollback(s))

\* no inc has returned nil: every scope is before its inc or was rejected
OnlyRejected ==
  \A s \in Scopes :
    sc[s].pc \in {"none", "assignId", "noHosts", "created", "rejected"}

\* C15: an inc fails only on a result over a limit; an inc that fails goes on
\* to return its error; and once the only incs so far are rejected ones, all
\* counters are back at the values from before them
TransientOverAdmission ==
  /\ [](\A s \in Scopes :
          sc[s].pc = "failed" =>
            \/ overLimit(sc[s].uq, userMax(sc[s].user))
            \/ overLimit(sc[s].cq, clusterUserMax(sc[s].clusterUser)))
  /\ [](OnlyRejected =>
          /\ \A u \in Users : uvalue[u] = Zero
          /\ \A cu \in ClusterUsers : cuvalue[cu] = Zero
          /\ \A h \in Hosts : hvalue[h] = Zero)
  /\ \A s \in Scopes : (sc[s].pc = "failed") ~> (sc[s].pc = "rejected")

\* two incs that raced for the one free slot of user and cluster user were
\* both rejected, and all counters are 0 again
TransientOverAdmissionWitness ==
  /\ \A s \in Scopes : sc[s].pc = "rejected" /\ sc[s].err
  /\ \A u \in Users : uvalue[u] = Zero
  /\ \A cu \in ClusterUsers : cuvalue[cu] = Zero
  /\ \A h \in Hosts : hvalue[h] = Zero

\* the race itself: no scope is admitted, one inc got 1 and 2 and the other
\* 2 and 1 from the counters of user and cluster user, and both have failed
BothOverACeiling ==
  \E s, t \in Scopes :
    /\ sc[s].pc = "failed" /\ sc[s].uq = U32(1) /\ sc[s].cq = U32(2)
    /\ sc[t].pc = "failed" /\ sc[t].uq = U32(2) /\ sc[t].cq = U32(1)

----------------------------------------------------------------------------
(* The heartbeat loops of the hosts and the close of their done channel *)

NextShutdown ==
  \/ \E h \in LoopHosts : runHeartbeat(h)
  \/ \E h \in LoopHosts, ok \in BOOLEAN : isHealthy(h, ok)
  \/ \E h \in LoopHosts : caseAfter(h)
  \/ \E h \in LoopHosts : caseDone(h)
  \/ closeDone

\* isHealthy returns, and select, which chooses among its ready cases at
\* random, does not pass over a closed done for ever
SpecShutdown ==
  /\ Init
  /\ [][NextShutdown]_vars
  /\ \A h \in LoopHosts : WF_vars(\E ok \in BOOLEAN : isHealthy(h, ok))
  /\ \A h \in LoopHosts : SF_vars(caseDone(h))

\* C17: once done is closed, a heartbeat loop that runs returns, also the one
\* that waits in its select; a loop that has returned makes no health check
\* and does not write the active flag any more
HeartbeatShutdown ==
  /\ \A h \in Hosts : (done /\ hb[h].pc # "none") ~> (hb[h].pc = "returned")
  /\ [][\A h \in Hosts :
          hb[h].pc = "returned" => (hb'[h] = hb[h] /\ active'[h] = active[h])]_vars

\* a loop that was waiting for its tick when done was closed has returned
\* without another health check
HeartbeatShutdownWitness ==
  \E h \in Hosts :
    /\ done
    /\ hb[h].pc = "returned"
    /\ hb[h].atDone = "select"
    /\ hb[h].probes = 1
    /\ hb[h].ticks = 0

----------------------------------------------------------------------------
(* The heartbeat loops while a request is admitted and released and the *)
(* first host is penalized                                               *)

NextHeartbeat ==
  \/ \E h \in LoopHosts : runHeartbeat(h)
  \/ \E h \in LoopHosts, ok \in BOOLEAN : isHealthy(h, ok)
  \/ \E h \in LoopHosts : caseAfter(h)
  \/ \E h \in LoopHosts : caseDone(h)
  \/ closeDone
  \/ newScope(1, 1, 1)
  \/ newScopeID(1)
  \/ incUser(1)
  \/ incClusterUser(1)
  \/ incHost(1)
  \/ decHost(1)
  \/ decUser(1)
  \/ decClusterUser(1)
  \/ penalizeLoad(1, 0, MaxHostPenalties)
  \/ penalizeAdd(1)
  \/ penalizeAfterFunc(1)
  \/ decay(0)

SpecHeartbeat == Init /\ [][NextHeartbeat]_vars

\* the health checks of h that have begun: those completed and the one running
checksBegun(h) == hb[h].probes + (IF hb[h].pc = "heartbeat" THEN 1 ELSE 0)

\* a health check of h completes in this step
checkCompletes(h) == hb[h].pc = "heartbeat" /\ hb'[h].pc # "heartbeat"

\* C16: a loop that runs has begun one health check at its start and one for
\* each tick; from the end of a check on, the active flag is 1 if the last
\* completed check succeeded and 0 if it failed; a loop returns only after
\* done is closed; and a check, failed or not, goes on to the select and
\* changes no counter and no penalty
HeartbeatTracksHealth ==
  /\ [](\A h \in Hosts :
          /\ (hb[h].pc # "none" /\ hb[h].ticks <= MaxTicks) =>
               checksBegun(h) = hb[h].ticks + 1
          /\ hb[h].last = "ok" => isActive(h)
          /\ hb[h].last = "failed" => active[h] = 0
          /\ hb[h].pc \in {"select", "returned"} => hb[h].last # "none"
          /\ hb[h].pc = "returned" => done)
  /\ [][\A h \in Hosts :
          checkCompletes(h) =>
            /\ hb'[h].pc = "select"
            /\ UNCHANGED <<hvalue, uvalue, cuvalue, penalty>>]_vars

\* the second health check of a host has failed after its first succeeded:
\* the host is inactive, its loop waits for the next tick, and a request and
\* a penalty are counted on it
HeartbeatTracksHealthWitness ==
  \E h \in Hosts :
    /\ hb[h].pc = "select"
    /\ hb[h].probes = 2
    /\ hb[h].ticks = 1
    /\ hb[h].last = "failed"
    /\ active[h] = 0
    /\ hvalue[h] = U32(1)
    /\ penalty[h] = U32(penaltySize)

----------------------------------------------------------------------------
(* The counters as counts of scopes, under SpecAdmit *)

\* the scopes that have incremented the counter of their user, of their
\* cluster user and of their host in inc, and have not yet decremented it in
\* the dec that release or the failed inc calls
CountedByUser ==
  {s \in Scopes :
     sc[s].pc \in {"incClusterUser", "incHost", "failed", "admitted", "decUser"}}
CountedByClusterUser ==
  {s \in Scopes :
     sc[s].pc \in {"incHost", "failed", "admitted", "decUser", "decClusterUser"}}
CountedByHost == {s \in Scopes : sc[s].pc \in {"failed", "admitted"}}

\* C19: every counter is the number of scopes of its user, cluster user or
\* host that have incremented it and not yet decremented it, so no counter is
\* decremented at 0
CountersCountScopes ==
  /\ [](/\ \A u \in Users :
            uvalue[u] = U32(Cardinality(OfUser(CountedByUser, u)))
        /\ \A cu \in ClusterUsers :
            cuvalue[cu] =
              U32(Cardinality(OfClusterUser(CountedByClusterUser, cu)))
        /\ \A h \in Hosts :
            hvalue[h] = U32(Cardinality({s \in CountedByHost : sc[s].host = h})))
  /\ [][/\ \A u \in Users : uvalue'[u] = dec(uvalue[u]) => uvalue[u] # Zero
        /\ \A cu \in ClusterUsers :
             cuvalue'[cu] = dec(cuvalue[cu]) => cuvalue[cu] # Zero
        /\ \A h \in Hosts : hvalue'[h] = dec(hvalue[h]) => hvalue[h] # Zero]_vars

\* two scopes of the user without limit on one host: one admitted, the other
\* released as far as the host; the user counts 2 and the host 1
CountersCountScopesWitness ==
  \E s, t \in Scopes :
    /\ sc[s].pc = "admitted" /\ sc[t].pc = "decUser" /\ ~sc[t].err
    /\ sc[s].user = 1 /\ sc[t].user = 1
    /\ sc[s].host = sc[t].host
    /\ uvalue[1] = U32(2)
    /\ hvalue[sc[s].host] = U32(1)

----------------------------------------------------------------------------
(* Requests of any user and cluster user whose incs and decs do not overlap, *)
(* on hosts of which the first is penalized                                  *)

NextSolo ==
  \/ \E s \in Scopes, u \in Users, cu \in ClusterUsers : newScope(s, u, cu)
  \/ \E s \in Scopes : newScopeID(s)
  \/ \E s \in Scopes : scopeInc(s)
  \/ \E s \in Scopes : scopeDec(s)
  \/ \E h \in Hosts, ok \in BOOLEAN : heartbeat(h, ok)
  \/ penalizeLoad(1, 0, MaxHostPenalties)
  \/ penalizeAdd(1)
  \/ penalizeAfterFunc(1)
  \/ decay(0)

SpecSolo == Init /\ [][NextSolo]_vars

\* the limit max is 0 or the counter value v is below it
fits(v, max) == max = 0 \/ LessU32(v, U32(max))

\* C20: an inc that nothing overlaps returns nil if and only if the counters
\* of its user and of its cluster user each are below the limit or have no
\* limit; then the three counters are one higher than before, and else they
\* are as before; the host's counter and penalty have no part in it
AdmissionDecision ==
  [][\A s \in Scopes :
       (sc[s].pc = "created" /\ sc'[s].pc \in {"admitted", "rejected"}) =>
         LET u == sc[s].user
             cu == sc[s].clusterUser
             h == sc[s].host
             ok == /\ fits(uvalue[u], userMax(u))
                   /\ fits(cuvalue[cu], clusterUserMax(cu))
         IN  /\ (sc'[s].pc = "admitted") <=> ok
             /\ ok => /\ uvalue' = [uvalue EXCEPT ![u] = AddU32(@, U32(1))]
                      /\ cuvalue' = [cuvalue EXCEPT ![cu] = AddU32(@, U32(1))]
                      /\ hvalue' = [hvalue EXCEPT ![h] = AddU32(@, U32(1))]
             /\ ~ok => UNCHANGED <<uvalue, cuvalue, hvalue>>]_vars

\* the user with limit 1 has one scope admitted on the penalized host and its
\* next inc, as another cluster user, was rejected on the same host
AdmissionDecisionWitness ==
  \E s, t \in Scopes :
    /\ sc[s].pc = "admitted" /\ sc[s].user = 0 /\ sc[s].clusterUser = 1
    /\ sc[t].pc = "rejected" /\ sc[t].user = 0 /\ sc[t].clusterUser = 0
    /\ sc[s].host = 0 /\ sc[t].host = 0
    /\ penalty[0] = U32(penaltySize)
    /\ uvalue[0] = U32(1) /\ cuvalue[1] = U32(1) /\ cuvalue[0] = Zero
    /\ hvalue[0] = U32(1)

\* two scopes of the user and cluster user without limit are admitted on the
\* penalized host: the second inc found all three counters at 1
AdmissionWithoutLimit ==
  \E s, t \in Scopes :
    /\ s # t
    /\ sc[s].pc = "admitted" /\ sc[t].pc = "admitted"
    /\ sc[s].user = 1 /\ sc[t].user = 1
    /\ sc[s].clusterUser = 1 /\ sc[t].clusterUser = 1
    /\ sc[s].host = 0 /\ sc[t].host = 0
    /\ penalty[0] = U32(penaltySize)
    /\ hvalue[0] = U32(2)

====
